---- MODULE Spec2Model ----
(***************************************************************************)
(* Model of the Text-to-SQL translation pipeline (src/text2sql.py):        *)
(* Text2SQLConverter with its query cache, its fixed-window rate gate, the *)
(* response sanitizer, the quote normalizer and the SQL shape validator.   *)
(*                                                                         *)
(* A Python str is modelled as a sequence of characters.  A character is   *)
(* a one-character TLA+ string; the backquote, which TLA+ strings cannot   *)
(* hold, is written "BQ".                                                  *)
(***************************************************************************)
EXTENDS FiniteSets, Integers, Sequences, TLC

----------------------------------------------------------------------------
(* Python str primitives used by the pipeline.                             *)

\* characters removed by str.strip() and matched by the regex class \s
WhiteSpace == {" ", "\n", "\t", "\r"}

LowerChars == <<"a", "b", "c", "d", "e", "f", "g", "h", "i", "j", "k", "l", "m", "n", "o", "p", "q", "r", "s", "t", "u", "v", "w", "x", "y", "z", "ç", "ã">>

UpperChars == <<"A", "B", "C", "D", "E", "F", "G", "H", "I", "J", "K", "L", "M", "N", "O", "P", "Q", "R", "S", "T", "U", "V", "W", "X", "Y", "Z", "Ç", "Ã">>

ToUpper(c) ==
    IF \E i \in 1..Len(LowerChars) : LowerChars[i] = c
    THEN UpperChars[CHOOSE i \in 1..Len(LowerChars) : LowerChars[i] = c]
    ELSE c

ToLower(c) ==
    IF \E i \in 1..Len(UpperChars) : UpperChars[i] = c
    THEN LowerChars[CHOOSE i \in 1..Len(UpperChars) : UpperChars[i] = c]
    ELSE c

\* str.upper()
Upper(s) == [i \in 1..Len(s) |-> ToUpper(s[i])]

\* str.lower()
Lower(s) == [i \in 1..Len(s) |-> ToLower(s[i])]

RECURSIVE LStrip(_)
LStrip(s) ==
    IF s # <<>> /\ Head(s) \in WhiteSpace THEN LStrip(Tail(s)) ELSE s

RECURSIVE RStripSet(_, _)
\* str.rstrip(chars): drop the trailing characters that belong to cs
RStripSet(s, cs) ==
    IF s # <<>> /\ s[Len(s)] \in cs
    THEN RStripSet(SubSeq(s, 1, Len(s) - 1), cs)
    ELSE s

\* str.strip()
Strip(s) == RStripSet(LStrip(s), WhiteSpace)

\* the pattern p occurs in s at the 1-based position i
MatchAt(s, i, p) ==
    /\ i >= 1
    /\ i + Len(p) - 1 <= Len(s)
    /\ SubSeq(s, i, i + Len(p) - 1) = p

\* str.startswith(p)
StartsWith(s, p) == MatchAt(s, 1, p)

\* str.endswith(p)
EndsWith(s, p) == MatchAt(s, Len(s) - Len(p) + 1, p)

\* str.find(p): 0-based index of the first occurrence, -1 when absent
Find(s, p) ==
    IF \E i \in 1..Len(s) : MatchAt(s, i, p)
    THEN (CHOOSE i \in 1..Len(s) :
            /\ MatchAt(s, i, p)
            /\ \A j \in 1..(i - 1) : ~MatchAt(s, j, p)) - 1
    ELSE -1

\* the operator `p in s' on strings
Contains(s, p) == Find(s, p) >= 0

RECURSIVE CountFrom(_, _, _)
\* the occurrences of p counted from position i on: the leftmost one, and
\* those counted after its end
CountFrom(s, p, i) ==
    LET hits == {j \in i..(Len(s) - Len(p) + 1) : MatchAt(s, j, p)}
    IN  IF hits = {} THEN 0
        ELSE 1 + CountFrom(s, p, (CHOOSE j \in hits : \A k \in hits : j <= k) + Len(p))

\* str.count(p): number of non-overlapping occurrences
Count(s, p) == CountFrom(s, p, 1)

\* str.split(c) for a one-character separator: the parts between one
\* occurrence of c and the next
Split(s, c) ==
    LET seps == {i \in 1..Len(s) : s[i] = c}
        SepAt(k) == IF k = 0 THEN 0
                    ELSE IF k > Cardinality(seps) THEN Len(s) + 1
                    ELSE CHOOSE p \in seps : Cardinality({q \in seps : q < p}) = k - 1
    IN  [k \in 1..(Cardinality(seps) + 1) |-> SubSeq(s, SepAt(k - 1) + 1, SepAt(k) - 1)]

RECURSIVE Join(_, _)
\* sep.join(parts)
Join(parts, sep) ==
    IF parts = <<>> THEN <<>>
    ELSE IF Len(parts) = 1 THEN parts[1]
    ELSE parts[1] \o sep \o Join(Tail(parts), sep)

----------------------------------------------------------------------------
(* Text2SQLConverter._clean_sql_response                                   *)

Fence == <<"BQ", "BQ", "BQ">>

KwSelect == <<"S", "E", "L", "E", "C", "T">>

KwFrom == <<"F", "R", "O", "M">>

RECURSIVE FenceLines(_, _)
\* the loop over the lines of a fenced response: a fence line toggles
\* in_code and is dropped; another line is kept when in_code, or when it
\* holds SELECT
FenceLines(lines, in_code) ==
    IF lines = <<>> THEN <<>>
    ELSE LET line == Head(lines) IN
         IF StartsWith(line, Fence)
         THEN FenceLines(Tail(lines), ~in_code)
         ELSE IF in_code \/ (~StartsWith(line, Fence) /\ Contains(Upper(line), KwSelect))
              THEN <<line>> \o FenceLines(Tail(lines), in_code)
              ELSE FenceLines(Tail(lines), in_code)

\* the words that start a trailing explanation
ExplainWords == {
    <<"e", "x", "p", "l", "i", "c", "a", "ç", "ã", "o", ":">>,
    <<"r", "e", "s", "u", "l", "t", "a", "d", "o", ":">>,
    <<"e", "s", "t", "a", " ", "c", "o", "n", "s", "u", "l", "t", "a">> }

RECURSIVE CommentLines(_)
\* the loop that strips each line, drops empty and comment lines and
\* breaks at the first line holding an explanation word
CommentLines(lines) ==
    IF lines = <<>> THEN <<>>
    ELSE LET line == Strip(Head(lines)) IN
         IF line # <<>> /\ ~StartsWith(line, <<"-", "-">>) /\ ~StartsWith(line, <<"#">>)
         THEN IF \E word \in ExplainWords : Contains(Lower(line), word)
              THEN <<>>
              ELSE <<line>> \o CommentLines(Tail(lines))
         ELSE CommentLines(Tail(lines))

_clean_sql_response(sql) ==
    LET unfenced == IF StartsWith(sql, Fence)
                    THEN Join(FenceLines(Split(sql, "\n"), FALSE), <<"\n">>)
                    ELSE sql
        joined == Join(CommentLines(Split(unfenced, "\n")), <<" ">>)
    IN  Strip(RStripSet(joined, {";"})) \o <<";">>

----------------------------------------------------------------------------
(* Text2SQLConverter._fix_quotes                                           *)

\* length of the run of whitespace that starts at position i
RECURSIVE WsRun(_, _)
WsRun(s, i) ==
    IF i <= Len(s) /\ s[i] \in WhiteSpace THEN 1 + WsRun(s, i + 1) ELSE 0

\* "([^"]+)" at position i: position of the closing quote, 0 when the
\* text at i is not a double-quoted, non-empty run
QuotedEnd(s, i) ==
    IF /\ i <= Len(s)
       /\ s[i] = "\""
       /\ \E k \in (i + 2)..Len(s) :
             /\ s[k] = "\""
             /\ \A j \in (i + 1)..(k - 1) : s[j] # "\""
    THEN CHOOSE k \in (i + 2)..Len(s) :
             /\ s[k] = "\""
             /\ \A j \in (i + 1)..(k - 1) : s[j] # "\""
    ELSE 0

\* (?:=|LIKE|IN) at position i, ignoring case: length of the keyword, or 0
KeywordLen(s, i) ==
    IF MatchAt(s, i, <<"=">>) THEN 1
    ELSE IF i + 3 <= Len(s) /\ Upper(SubSeq(s, i, i + 3)) = <<"L", "I", "K", "E">> THEN 4
    ELSE IF i + 1 <= Len(s) /\ Upper(SubSeq(s, i, i + 1)) = <<"I", "N">> THEN 2
    ELSE 0

\* first pattern, (\s*(?:=|LIKE|IN)\s+)"([^"]+)", with its keyword at
\* position i: position of the opening quote, or 0 when it does not match
Pattern1Quote(s, i) ==
    LET k == KeywordLen(s, i)
        w == WsRun(s, i + k)
    IN  IF k > 0 /\ w > 0 /\ QuotedEnd(s, i + k + w) > 0 THEN i + k + w ELSE 0

\* second pattern, (dept_name\s*=\s*)"([^"]+)", with dept_name at
\* position i: position of the opening quote, or 0 when it does not match
Pattern2Quote(s, i) ==
    IF i + 8 <= Len(s) /\ Upper(SubSeq(s, i, i + 8)) = <<"D", "E", "P", "T", "_", "N", "A", "M", "E">>
    THEN LET e == i + 9 + WsRun(s, i + 9)
             q == e + 1 + WsRun(s, e + 1)
         IN  IF e <= Len(s) /\ s[e] = "=" /\ QuotedEnd(s, q) > 0 THEN q ELSE 0
    ELSE 0

PatternQuote(s, i, pattern) ==
    IF pattern = 1 THEN Pattern1Quote(s, i) ELSE Pattern2Quote(s, i)

RECURSIVE ReSubFrom(_, _, _)
\* re.sub(pattern, r"\1'\2'", s): scan from the left, rewrite the quotes of
\* each non-overlapping match and resume after it.  The leading \s* of the
\* first pattern belongs to group 1 and is copied unchanged, so that the
\* scan may take the match at its keyword.
ReSubFrom(s, i, pattern) ==
    LET hits == {j \in i..Len(s) : PatternQuote(s, j, pattern) > 0}
    IN  IF hits = {} THEN SubSeq(s, i, Len(s))
        ELSE LET q == PatternQuote(s, CHOOSE j \in hits : \A k \in hits : j <= k, pattern)
                 e == QuotedEnd(s, q)
             IN  SubSeq(s, i, q - 1) \o <<"'">> \o SubSeq(s, q + 1, e - 1) \o <<"'">>
                     \o ReSubFrom(s, e + 1, pattern)

_fix_quotes(sql_query) == ReSubFrom(ReSubFrom(sql_query, 1, 1), 1, 2)

----------------------------------------------------------------------------
(* Text2SQLConverter._is_valid_sql                                         *)

\* the fragments the validator refuses by name
Fragments == {
    <<"S", "E", "L", "E", "C", "T", " ", "A", "V", "G", "(", "T", "1", ".", "G", "R", "A", "D", "E", ")", ";">>,
    <<"S", "E", "L", "E", "C", "T", ";">>,
    <<"F", "R", "O", "M", ";">> }

\* shortest and longest length not accepted
MinSqlLen == 10

MaxSqlLen == 2000

\* the validation without the test of the order of the keywords
_is_valid_sql_unordered(text) ==
    /\ Contains(Upper(text), KwSelect)
    /\ Contains(Upper(text), KwFrom)
    /\ EndsWith(Strip(text), <<";">>)
    /\ MinSqlLen < Len(text) /\ Len(text) < MaxSqlLen

_is_valid_sql(text) ==
    IF text = <<>> THEN FALSE
    ELSE LET text_upper == Strip(Upper(text))
             has_select == Contains(text_upper, KwSelect)
             has_from == Contains(text_upper, KwFrom)
             has_semicolon == EndsWith(Strip(text), <<";">>)
             reasonable_length == MinSqlLen < Len(text) /\ Len(text) < MaxSqlLen
             select_pos == Find(text_upper, KwSelect)
             from_pos == Find(text_upper, KwFrom)
             valid_structure == IF select_pos >= 0 /\ from_pos >= 0
                                THEN select_pos < from_pos
                                ELSE FALSE
             is_not_fragment == ~(\/ Count(text_upper, KwSelect) = 0
                                  \/ Strip(text_upper) \in Fragments)
         IN  /\ has_select
             /\ has_from
             /\ has_semicolon
             /\ reasonable_length
             /\ valid_structure
             /\ is_not_fragment

----------------------------------------------------------------------------
(* The cache key: hashlib.md5(f"{nl_query}_{str(sorted(schema.items()))}")  *)
(* A schema is a dict: the sequence of its (table, columns) items in        *)
(* insertion order, with pairwise different table names.                    *)

\* the characters in ascending code point order
CodeOrder == <<" ", "!", "\"", "#", "$", "%", "&", "'", "(", ")", "*", "+", ",", "-", ".", "/", "0", "1", "2", "3", "4", "5", "6", "7", "8", "9", ":", ";", "<", "=", ">", "?", "@", "A", "B", "C", "D", "E", "F", "G", "H", "I", "J", "K", "L", "M", "N", "O", "P", "Q", "R", "S", "T", "U", "V", "W", "X", "Y", "Z", "[", "]", "^", "_", "a", "b", "c", "d", "e", "f", "g", "h", "i", "j", "k", "l", "m", "n", "o", "p", "q", "r", "s", "t", "u", "v", "w", "x", "y", "z">>

\* ord(c), up to a monotone renumbering
Ord(c) == CHOOSE i \in 1..Len(CodeOrder) : CodeOrder[i] = c

RECURSIVE StrLess(_, _)
\* a < b on str
StrLess(a, b) ==
    IF b = <<>> THEN FALSE
    ELSE IF a = <<>> THEN TRUE
    ELSE IF Head(a) = Head(b) THEN StrLess(Tail(a), Tail(b))
    ELSE Ord(Head(a)) < Ord(Head(b))

RECURSIVE ListLess(_, _)
\* a < b on lists of str
ListLess(a, b) ==
    IF b = <<>> THEN FALSE
    ELSE IF a = <<>> THEN TRUE
    ELSE IF Head(a) = Head(b) THEN ListLess(Tail(a), Tail(b))
    ELSE StrLess(Head(a), Head(b))

\* x < y on the (table, columns) tuples of schema.items()
ItemLess(x, y) ==
    \/ StrLess(x[1], y[1])
    \/ x[1] = y[1] /\ ListLess(x[2], y[2])

RECURSIVE InsertItem(_, _)
InsertItem(x, items) ==
    IF items = <<>> THEN <<x>>
    ELSE IF ItemLess(x, Head(items)) THEN <<x>> \o items
    ELSE <<Head(items)>> \o InsertItem(x, Tail(items))

RECURSIVE Sorted(_)
\* a cache key built without sorting the items
SortedNaive(items) == items

\* sorted(schema.items())
Sorted(items) ==
    IF items = <<>> THEN <<>>
    ELSE InsertItem(items[Len(items)], Sorted(SubSeq(items, 1, Len(items) - 1)))

\* repr of a str that holds no quote, backslash or control character
ReprStr(s) == <<"'">> \o s \o <<"'">>

\* str of a list whose elements have the given reprs
ReprList(reprs) == <<"[">> \o Join(reprs, <<",", " ">>) \o <<"]">>

\* repr of a (table, columns) tuple
ReprItem(item) ==
    <<"(">> \o ReprStr(item[1]) \o <<",", " ">>
        \o ReprList([i \in 1..Len(item[2]) |-> ReprStr(item[2][i])]) \o <<")">>

\* str(sorted(schema.items()))
SchemaText(schema) ==
    LET items == Sorted(schema)
    IN  ReprList([i \in 1..Len(items) |-> ReprItem(items[i])])

\* hashlib.md5(...).hexdigest(), taken to be free of collisions: the digest
\* stands for the text that was hashed
Md5(text) == <<"md5", text>>

cache_key(nl_query, schema) == Md5(nl_query \o <<"_">> \o SchemaText(schema))

----------------------------------------------------------------------------
(* The inputs of the model.                                                *)

Question1 == <<"h", "o", "w", " ", "m", "a", "n", "y">>

Question2 == <<"l", "i", "s", "t", " ", "a", "l", "l">>

Student == <<"s", "t", "u", "d", "e", "n", "t">>

Takes == <<"t", "a", "k", "e", "s">>

ColId == <<"i", "d">>

ColName == <<"n", "a", "m", "e">>

ColGrade == <<"g", "r", "a", "d", "e">>

\* one schema content in its two insertion orders, and a second content
SchemaA == << <<Student, <<ColId, ColName>> >>, <<Takes, <<ColId, ColGrade>> >> >>

SchemaAPermuted == << <<Takes, <<ColId, ColGrade>> >>, <<Student, <<ColId, ColName>> >> >>

SchemaB == << <<Student, <<ColName, ColId>> >>, <<Takes, <<ColId, ColGrade>> >> >>

\* the (question, schema) pairs submitted to nl_to_sql
Requests == {
    <<Question1, SchemaA>>,
    <<Question1, SchemaAPermuted>>,
    <<Question2, SchemaB>> }

\* raw texts the collaborator may answer with
RawPlain == <<"S", "E", "L", "E", "C", "T", " ", "1", " ", "F", "R", "O", "M", " ", "t", ";">>

RawFenced == <<"BQ", "BQ", "BQ", "s", "q", "l", "\n", "S", "E", "L", "E", "C", "T", " ", "a", " ", "F", "R", "O", "M", " ", "t", " ", "W", "H", "E", "R", "E", " ", "b", " ", "=", " ", "\"", "x", "\"", "\n", "BQ", "BQ", "BQ">>

RawNoFrom == <<"S", "E", "L", "E", "C", "T", " ", "1", ";">>

RawOutputs == {RawPlain, RawFenced, RawNoFrom}

\* what generate_content does: it answers with a text, or it raises
Responses ==
    {[raises |-> FALSE, text |-> r] : r \in RawOutputs}
        \cup {[raises |-> TRUE, text |-> <<>>]}

Instructor == <<"i", "n", "s", "t", "r", "u", "c", "t", "o", "r">>

Course == <<"c", "o", "u", "r", "s", "e">>

Department == <<"d", "e", "p", "a", "r", "t", "m", "e", "n", "t">>

ColDeptName == <<"d", "e", "p", "t", "_", "n", "a", "m", "e">>

ColTotCred == <<"t", "o", "t", "_", "c", "r", "e", "d">>

ColSalary == <<"s", "a", "l", "a", "r", "y">>

ColCourseId == <<"c", "o", "u", "r", "s", "e", "_", "i", "d">>

ColTitle == <<"t", "i", "t", "l", "e">>

ColCredits == <<"c", "r", "e", "d", "i", "t", "s">>

ColSecId == <<"s", "e", "c", "_", "i", "d">>

ColSemester == <<"s", "e", "m", "e", "s", "t", "e", "r">>

ColYear == <<"y", "e", "a", "r">>

ColBuilding == <<"b", "u", "i", "l", "d", "i", "n", "g">>

ColBudget == <<"b", "u", "d", "g", "e", "t">>

\* get_sample_schema: the five tables in the order the dict is built
SampleSchema ==
    << <<Student, <<ColId, ColName, ColDeptName, ColTotCred>> >>,
       <<Instructor, <<ColId, ColName, ColDeptName, ColSalary>> >>,
       <<Course, <<ColCourseId, ColTitle, ColDeptName, ColCredits>> >>,
       <<Takes, <<ColId, ColCourseId, ColSecId, ColSemester, ColYear, ColGrade>> >>,
       <<Department, <<ColDeptName, ColBuilding, ColBudget>> >> >>

QuestionSample == <<"Q", "u", "a", "n", "t", "o", "s", " ", "e", "s", "t", "u", "d", "a", "n", "t", "e", "s", " ", "h", "á", " ", "e", "m", " ", "c", "i", "ê", "n", "c", "i", "a", " ", "d", "a", " ", "c", "o", "m", "p", "u", "t", "a", "ç", "ã", "o", "?">>

\* the (question, schema) pair of the end-to-end scenario
SampleRequests == {<<QuestionSample, SampleSchema>>}

\* a fenced block around one statement without terminator
RawSample == <<"BQ", "BQ", "BQ", "\n", "S", "E", "L", "E", "C", "T", " ", "C", "O", "U", "N", "T", "(", "*", ")", " ", "F", "R", "O", "M", " ", "s", "t", "u", "d", "e", "n", "t", " ", "W", "H", "E", "R", "E", " ", "d", "e", "p", "t", "_", "n", "a", "m", "e", " ", "=", " ", "\"", "C", "o", "m", "p", ".", " ", "S", "c", "i", ".", "\"", "\n", "BQ", "BQ", "BQ">>

SampleOutputs == {RawSample, RawFenced, RawNoFrom}

SampleResponses ==
    {[raises |-> FALSE, text |-> r] : r \in SampleOutputs}
        \cup {[raises |-> TRUE, text |-> <<>>]}

\* the questions asked in the window
WindowQuestions == {QuestionSample, Question2}

\* the (question, schema) pairs the workers of the window submit
WindowRequests == {<<q, SampleSchema>> : q \in WindowQuestions}

\* what the user may type in the question field
TypedTexts == {<<>>, QuestionSample, Question2 \o <<" ">>}

\* what generate_content does when a worker of the window calls it
WindowResponses == {[raises |-> FALSE, text |-> RawSample], [raises |-> TRUE, text |-> <<>>]}

\* the window starts at most this many workers
MaxWorkers == 2

\* the clock advances by these amounts between two calls
Delays == {30}

\* the model stops the clock here
MaxTime == 60

\* the model stops counting calls here
MaxCount == 51

\* the model counts this many calls made after the window has ended
MaxLateCalls == 2

----------------------------------------------------------------------------
(* Text2SQLConverter                                                       *)

\* calls allowed in a window, and the length of the window
RateLimit == 50

Window == 60

VARIABLES
    gemini_api_key,   \* self.gemini_api_key
    use_gemini,       \* self.use_gemini
    query_cache,      \* self.query_cache: cache key -> accepted SQL
    query_count,      \* self.query_count
    start_time,       \* self.start_time
    now,              \* the clock read by time.time()
    last,             \* the latest nl_to_sql call: its arguments, what the
                      \* collaborator would answer, its steps and its outcome
    invoked,          \* history: the cache keys the collaborator was invoked for
    accepted_calls,   \* history: per cache key, the collaborator calls whose
                      \* output was accepted
    stored_schema,    \* history: per cached key, the schema argument of the
                      \* call that stored the entry
    window_calls,     \* history: the calls that obtained an answer of the
                      \* collaborator since start_time was set and less than
                      \* Window after it
    frames,           \* per calling thread, its nl_to_sql invocation when the
                      \* statements of nl_to_sql are taken one by one: the
                      \* arguments, the locals and the position
    overlapped        \* history: an invocation began while another one was
                      \* in progress

VARIABLES
    applied,          \* the method applied on its own to arg, "none" before
    arg,              \* the argument of a method applied on its own
    out               \* what the method returned, <<>> before

VARIABLES
    window_schema,    \* MainWindow.schema
    query_input,      \* the text of MainWindow.query_input
    sql_display,      \* the text of MainWindow.sql_display
    results_table,    \* what MainWindow.results_table shows
    execute_enabled,  \* MainWindow.execute_btn is enabled
    query_history,    \* MainWindow.query_history
    workers,          \* the QueryWorker threads started, in the order of
                      \* their start: question, position in run and the SQL
                      \* obtained
    worker,           \* MainWindow.worker: index in workers, 0 before the
                      \* first one
    signals,          \* the signals of the workers queued for the thread of
                      \* the window
    crashed           \* the process was aborted

converter == <<gemini_api_key, use_gemini, query_cache, query_count, start_time, now, last,
               invoked, accepted_calls, stored_schema, window_calls, frames, overlapped>>

application == <<applied, arg, out>>

window == <<window_schema, query_input, sql_display, results_table, execute_enabled, query_history,
            workers, worker, signals, crashed>>

vars == <<converter, application, window>>

history == <<invoked, accepted_calls, stored_schema, window_calls>>

\* no method is applied on its own
NoApplication == applied = "none" /\ arg = <<>> /\ out = <<>>

\* no window is open
NoWindow ==
    /\ window_schema = <<>>
    /\ query_input = <<>>
    /\ sql_display = <<>>
    /\ results_table = <<>>
    /\ execute_enabled = FALSE
    /\ query_history = <<>>
    /\ workers = <<>>
    /\ worker = 0
    /\ signals = <<>>
    /\ crashed = FALSE

NoKey == <<>>

Placeholder == <<"y", "o", "u", "r", "_", "a", "p", "i", "_", "k", "e", "y", "_", "h", "e", "r", "e">>

RealKey == <<"k", "e", "y">>

ApiKeys == {NoKey, Placeholder, RealKey}

\* the test that guards genai.configure in __init__
UsableKey(api_key) == api_key # NoKey /\ api_key # Placeholder

\* the cache key of each of the requests
CacheKeys == [req \in Requests \cup SampleRequests \cup WindowRequests |-> cache_key(req[1], req[2])]

KeySet == {CacheKeys[req] : req \in Requests \cup SampleRequests \cup WindowRequests}

\* no call was made yet
NoCall == [nl_query |-> <<>>, schema |-> <<>>, response |-> [raises |-> TRUE, text |-> <<>>],
           outcome |-> "None", result |-> <<>>, slept |-> 0, events |-> <<>>]

\* __init__: configure_ok is whether genai.configure and GenerativeModel
\* return without raising
Constructed ==
    \E api_key \in ApiKeys, configure_ok \in BOOLEAN :
        /\ gemini_api_key = api_key
        /\ use_gemini = (UsableKey(api_key) /\ configure_ok)
        /\ query_cache = <<>>
        /\ query_count = 0
        /\ now = 0
        /\ start_time = 0
        /\ last = NoCall
        /\ invoked = {}
        /\ accepted_calls = [k \in KeySet |-> 0]
        /\ stored_schema = <<>>
        /\ window_calls = 0
        /\ frames = <<>>
        /\ overlapped = FALSE

\* a converter was constructed and no method is applied on its own
Init == Constructed /\ NoApplication /\ NoWindow

\* nl_to_sql without its first statement
NotConfiguredNever(flag) == FALSE

\* the guard of the first statement of nl_to_sql
NotConfigured(flag) == ~flag

\* a lookup that never finds the key
CacheHitNever(cache, key) == FALSE

\* cache_key in self.query_cache
CacheHit(cache, key) == key \in DOMAIN cache

\* a rate gate that does not look at the time elapsed
RateBlockedAnyTime(count, elapsed) == count >= RateLimit

\* a rate gate that lets one call too many through
RateBlockedLate(count, elapsed) == count > RateLimit /\ elapsed < Window

\* the test of the rate gate
RateBlocked(count, elapsed) == count >= RateLimit /\ elapsed < Window

\* the argument of time.sleep
SleepTime(elapsed) == Window - elapsed

\* the generation without the pass over the quotes
_gemini_generate_sql_unfixed(text) == _clean_sql_response(Strip(text))

\* _gemini_generate_sql, from the text the collaborator answered with
_gemini_generate_sql(text) == _fix_quotes(_clean_sql_response(Strip(text)))

\* _gemini_generate_sql on each of the raw texts
GeneratedSql == [r \in RawOutputs \cup SampleOutputs |-> _gemini_generate_sql(r)]

\* a collaborator call that is made again when it raises, the second
\* attempt answering with a text
CollaboratorCallRetry(response) ==
    [events |-> IF response.raises THEN <<"generate", "generate">> ELSE <<"generate">>,
     raised |-> FALSE,
     sql |-> IF response.raises THEN GeneratedSql[RawPlain] ELSE GeneratedSql[response.text]]

\* the call of _gemini_generate_sql in nl_to_sql: generate_content is
\* called once and what it raises is not caught
CollaboratorCall(response) ==
    [events |-> <<"generate">>,
     raised |-> response.raises,
     sql |-> IF response.raises THEN <<>> ELSE GeneratedSql[response.text]]

\* _is_valid_sql on each text _gemini_generate_sql can return here
ValidSql == [sql \in {GeneratedSql[r] : r \in RawOutputs \cup SampleOutputs} |-> _is_valid_sql(sql)]

\* a validation whose verdict is dropped
AcceptedAny(result) == TRUE

\* a validation whose verdict is taken the wrong way round
AcceptedInverted(result) == ~ValidSql[result]

\* the test that decides between caching and raising
Accepted(result) == ValidSql[result]

\* an accepted result that is returned without being stored
StoreNothing(cache, key, result) == cache

\* self.query_cache[cache_key] = result
StoreResult(cache, key, result) ==
    [k \in DOMAIN cache \cup {key} |-> IF k = key THEN result ELSE cache[k]]

\* the latest call, as recorded
Call(nl_query, schema, response, outcome, result, slept, events) ==
    [nl_query |-> nl_query, schema |-> schema, response |-> response,
     outcome |-> outcome, result |-> result, slept |-> slept, events |-> events]

\* nl_to_sql(nl_query, schema), with the collaborator answering `response'
\* if it is invoked.  The time the collaborator takes is left to Tick: the
\* call does not read the clock after it.
nl_to_sql(nl_query, schema, response) ==
    /\ UNCHANGED <<gemini_api_key, use_gemini, frames, overlapped>>
    /\ IF NotConfigured(use_gemini)
       THEN /\ last' = Call(nl_query, schema, response, "NotConfigured", <<>>, 0, <<>>)
            /\ UNCHANGED <<query_cache, query_count, start_time, now, history>>
       ELSE LET key == CacheKeys[<<nl_query, schema>>] IN
            IF CacheHit(query_cache, key)
            THEN /\ last' = Call(nl_query, schema, response, "Done", query_cache[key], 0, <<"lookup">>)
                 /\ UNCHANGED <<query_cache, query_count, start_time, now, history>>
            ELSE LET elapsed == now - start_time
                     blocked == RateBlocked(query_count, elapsed)
                     slept == IF blocked THEN SleepTime(elapsed) ELSE 0
                     gate == IF blocked THEN <<"lookup", "sleep", "reset">> ELSE <<"lookup">>
                     count == IF blocked THEN 0 ELSE query_count
                     in_window == blocked \/ elapsed < Window
                     counted == IF blocked THEN 0 ELSE window_calls
                     answer == CollaboratorCall(response)
                 IN  /\ now + slept <= MaxTime
                     /\ now' = now + slept
                     /\ start_time' = IF blocked THEN now + slept ELSE start_time
                     /\ invoked' = invoked \cup {key}
                     /\ IF answer.raised
                        THEN /\ query_count' = count
                             /\ window_calls' = counted
                             /\ last' = Call(nl_query, schema, response, "Failed", <<>>, slept,
                                             gate \o answer.events)
                             /\ UNCHANGED <<query_cache, accepted_calls, stored_schema>>
                        ELSE /\ count < MaxCount
                             /\ in_window \/ query_count - window_calls < MaxLateCalls
                             /\ query_count' = count + 1
                             /\ window_calls' = IF in_window THEN counted + 1 ELSE counted
                             /\ IF Accepted(answer.sql)
                                THEN /\ query_cache' = StoreResult(query_cache, key, answer.sql)
                                     /\ accepted_calls' = [accepted_calls EXCEPT ![key] = @ + 1]
                                     /\ stored_schema' = StoreResult(stored_schema, key, schema)
                                     /\ last' = Call(nl_query, schema, response, "Done", answer.sql, slept,
                                                     gate \o answer.events \o <<"count", "validate", "store">>)
                                ELSE /\ last' = Call(nl_query, schema, response, "Rejected", <<>>, slept,
                                                     gate \o answer.events \o <<"count", "validate">>)
                                     /\ UNCHANGED <<query_cache, accepted_calls, stored_schema>>

\* time passes between two calls
Tick(d) ==
    /\ now + d <= MaxTime
    /\ now' = now + d
    /\ UNCHANGED <<gemini_api_key, use_gemini, query_cache, query_count, start_time, last, history,
                   frames, overlapped>>

Translate ==
    /\ \E req \in Requests, response \in Responses : nl_to_sql(req[1], req[2], response)
    /\ UNCHANGED <<application, window>>

Advance ==
    /\ \E d \in Delays : Tick(d)
    /\ UNCHANGED <<application, window>>

Next == Translate \/ Advance

Spec == Init /\ [][Next]_vars

\* the end-to-end scenario: the questions are asked about the sample schema
TranslateSample ==
    /\ \E req \in SampleRequests, response \in SampleResponses :
           nl_to_sql(req[1], req[2], response)
    /\ UNCHANGED <<application, window>>

NextSample == TranslateSample \/ Advance

SpecSample == Init /\ [][NextSample]_vars

----------------------------------------------------------------------------
(* Properties of nl_to_sql.                                                *)

\* the call recorded in c invoked the collaborator
Generated(c) == \E i \in 1..Len(c.events) : c.events[i] = "generate"

\* the number of times the call recorded in c invoked the collaborator
Generations(c) == Cardinality({i \in 1..Len(c.events) : c.events[i] = "generate"})

\* the call recorded in c was answered from the cache
ServedFromCache(c) == c.outcome = "Done" /\ c.events = <<"lookup">>

\* two schemas hold the same (table, columns) entries
SameEntries(s1, s2) ==
    /\ Len(s1) = Len(s2)
    /\ {s1[i] : i \in 1..Len(s1)} = {s2[i] : i \in 1..Len(s2)}

\* C1: when a call has returned SQL for a (question, schema), the next call
\* with the same (question, schema) returns the same SQL, whatever the
\* collaborator would answer this time.
C1_SameSqlOnRepeat ==
    [][\A req \in Requests, response \in Responses :
          (/\ last.outcome = "Done"
           /\ last.nl_query = req[1]
           /\ last.schema = req[2]
           /\ nl_to_sql(req[1], req[2], response))
          => (last'.outcome = "Done" /\ last'.result = last.result)]_vars

\* a repeated call was answered from the cache although the collaborator
\* would have answered with another accepted statement
C1_Witness ==
    /\ ServedFromCache(last)
    /\ stored_schema[CacheKeys[<<last.nl_query, last.schema>>]] = last.schema
    /\ ~last.response.raises
    /\ _is_valid_sql(GeneratedSql[last.response.text])
    /\ GeneratedSql[last.response.text] # last.result

\* C2: a call whose key is in the cache returns the stored string and does
\* nothing else: no collaborator call, no sleep, no validation, and the
\* cache, the counter, the window start and the clock are left alone.
C2_HitOnlyReturns ==
    [][\A req \in Requests, response \in Responses :
          (/\ use_gemini
           /\ CacheKeys[req] \in DOMAIN query_cache
           /\ nl_to_sql(req[1], req[2], response))
          => (/\ last'.outcome = "Done"
              /\ last'.result = query_cache[CacheKeys[req]]
              /\ last'.events = <<"lookup">>
              /\ last'.slept = 0
              /\ UNCHANGED <<query_cache, query_count, start_time, now>>)]_vars

\* a call was answered from the cache while the rate gate was closed
C2_Witness ==
    /\ ServedFromCache(last)
    /\ query_count >= RateLimit
    /\ now - start_time < Window

\* C3: an instance built without a usable credential has use_gemini false,
\* use_gemini never changes, and every call on such an instance fails as
\* not configured without a cache lookup, a sleep or a collaborator call and
\* leaves the cache, the counter, the window start and the clock alone.
C3_NotConfiguredFails ==
    /\ [](~UsableKey(gemini_api_key) => ~use_gemini)
    /\ [][/\ use_gemini' = use_gemini
          /\ \A req \in Requests, response \in Responses :
                (~use_gemini /\ nl_to_sql(req[1], req[2], response))
                => (/\ last'.outcome = "NotConfigured"
                    /\ last'.events = <<>>
                    /\ last'.slept = 0
                    /\ UNCHANGED <<query_cache, query_count, start_time, now>>)]_vars

\* a call failed as not configured some time after the construction
C3_Witness ==
    /\ ~use_gemini
    /\ last.outcome = "NotConfigured"
    /\ now > 0

\* C4: a call whose sanitized collaborator output fails _is_valid_sql is
\* rejected and stores nothing, and the next call with the same (question,
\* schema) invokes the collaborator again.
C4_RejectedNotCached ==
    [][\A req \in Requests, response \in Responses :
          nl_to_sql(req[1], req[2], response)
          => (/\ (/\ Generated(last')
                  /\ ~response.raises
                  /\ ~_is_valid_sql(GeneratedSql[response.text]))
                 => (/\ last'.outcome = "Rejected"
                     /\ query_cache' = query_cache
                     /\ CacheKeys[req] \notin DOMAIN query_cache')
              /\ (/\ last.outcome = "Rejected"
                  /\ last.nl_query = req[1]
                  /\ last.schema = req[2])
                 => Generated(last'))]_vars

\* a rejected call was repeated and its repetition was rejected again,
\* both calls being counted
C4_Witness ==
    /\ last.outcome = "Rejected"
    /\ query_count >= 2
    /\ query_cache = <<>>

\* C5: a call either returns a string that _is_valid_sql accepts, or it
\* raises and returns nothing; every cached string, which a later hit
\* returns, is accepted by _is_valid_sql as well.
C5_ReturnsValidOrRaises ==
    /\ last.outcome \in {"None", "Done", "NotConfigured", "Rejected", "Failed"}
    /\ last.outcome = "Done" => _is_valid_sql(last.result)
    /\ last.outcome # "Done" => last.result = <<>>
    /\ \A k \in DOMAIN query_cache : _is_valid_sql(query_cache[k])

\* a fenced collaborator output was sanitized, accepted and returned
C5_Witness ==
    /\ last.outcome = "Done"
    /\ Generated(last)
    /\ last.response.text = RawFenced
    /\ last.result # RawFenced

\* C6: after RateLimit calls that obtained an answer of the collaborator in
\* the current window, the next call that misses the cache inside the window
\* sleeps for the rest of the window before it invokes the collaborator.
C6_BlocksForRestOfWindow ==
    [][\A req \in Requests, response \in Responses :
          (/\ use_gemini
           /\ window_calls = RateLimit
           /\ now - start_time < Window
           /\ CacheKeys[req] \notin DOMAIN query_cache
           /\ nl_to_sql(req[1], req[2], response))
          => (/\ last'.slept = Window - (now - start_time)
              /\ now' = now + last'.slept
              /\ SubSeq(last'.events, 1, 4) = <<"lookup", "sleep", "reset", "generate">>)]_vars

\* a call slept for the rest of a window that had begun, then invoked the
\* collaborator
C6_Witness ==
    /\ Generated(last)
    /\ last.slept > 0
    /\ last.slept < Window

\* C7: query_count never exceeds RateLimit.
C7_CountBounded == query_count <= RateLimit

\* C8: the cache key does not depend on the insertion order of the schema:
\* requests with the same question and the same schema entries have the
\* same key, and a translation returned for one order is served from the
\* cache to the next call with another order.
C8_KeyIgnoresOrder ==
    [][/\ \A r1 \in Requests, r2 \in Requests :
             (r1[1] = r2[1] /\ SameEntries(r1[2], r2[2])) => CacheKeys[r1] = CacheKeys[r2]
       /\ \A req \in Requests, response \in Responses :
             (/\ last.outcome = "Done"
              /\ last.nl_query = req[1]
              /\ SameEntries(last.schema, req[2])
              /\ nl_to_sql(req[1], req[2], response))
             => (ServedFromCache(last') /\ last'.result = last.result)]_vars

\* a call was served an entry that was stored under another insertion order
C8_Witness ==
    /\ ServedFromCache(last)
    /\ stored_schema[CacheKeys[<<last.nl_query, last.schema>>]] # last.schema
    /\ SameEntries(stored_schema[CacheKeys[<<last.nl_query, last.schema>>]], last.schema)

\* C9: a call invokes the collaborator at most once, and when the
\* collaborator raises the call fails at once: nothing follows the
\* collaborator call and the cache is unchanged.
C9_NoRetry ==
    [][\A req \in Requests, response \in Responses :
          nl_to_sql(req[1], req[2], response)
          => (/\ Generations(last') <= 1
              /\ (Generated(last') /\ response.raises)
                 => (/\ last'.outcome = "Failed"
                     /\ last'.events[Len(last'.events)] = "generate"
                     /\ query_cache' = query_cache))]_vars

\* a call failed because the collaborator raised, after an earlier call
\* had been counted
C9_Witness ==
    /\ last.outcome = "Failed"
    /\ Generations(last) = 1
    /\ query_count > 0

\* C10, as claimed: the collaborator is never invoked for a (question,
\* schema) it was invoked for before.
C10_InvokedOnce ==
    [][\A req \in Requests, response \in Responses :
          (/\ CacheKeys[req] \in invoked
           /\ nl_to_sql(req[1], req[2], response))
          => ~Generated(last')]_vars

\* C10, amended: for each (question, schema) exactly one collaborator call
\* is accepted once its translation is cached and none before; a cached
\* pair is not sent to the collaborator again, and a pair that is not
\* cached is sent to it by every call.
C10_AcceptedOnce ==
    /\ [](\A k \in KeySet :
             /\ accepted_calls[k] = IF k \in DOMAIN query_cache THEN 1 ELSE 0
             /\ k \in DOMAIN query_cache => k \in invoked)
    /\ [][\A req \in Requests, response \in Responses :
             (use_gemini /\ nl_to_sql(req[1], req[2], response))
             => (Generated(last') <=> CacheKeys[req] \notin DOMAIN query_cache)]_vars

\* a pair was accepted once and is served from the cache, in a run where
\* another call was counted without being accepted
C10_Witness ==
    /\ ServedFromCache(last)
    /\ accepted_calls[CacheKeys[<<last.nl_query, last.schema>>]] = 1
    /\ query_count >= 2
    /\ Cardinality(DOMAIN query_cache) = 1

----------------------------------------------------------------------------
(* The end-to-end scenario.                                                *)

\* the statement of RawSample as it is to be returned
SqlSample == <<"S", "E", "L", "E", "C", "T", " ", "C", "O", "U", "N", "T", "(", "*", ")", " ", "F", "R", "O", "M", " ", "s", "t", "u", "d", "e", "n", "t", " ", "W", "H", "E", "R", "E", " ", "d", "e", "p", "t", "_", "n", "a", "m", "e", " ", "=", " ", "'", "C", "o", "m", "p", ".", " ", "S", "c", "i", ".", "'", ";">>

\* the statement of RawFenced as it is to be returned
SqlFenced == <<"S", "E", "L", "E", "C", "T", " ", "a", " ", "F", "R", "O", "M", " ", "t", " ", "W", "H", "E", "R", "E", " ", "b", " ", "=", " ", "'", "x", "'", ";">>

\* fenced answers and the statements expected of them
FencedCases == {[raw |-> RawSample, sql |-> SqlSample], [raw |-> RawFenced, sql |-> SqlFenced]}

\* C11: when the collaborator answers a question about the sample schema
\* with a fenced block around one SELECT ... FROM statement that has no
\* terminator and a double-quoted literal after '=', nl_to_sql returns the
\* statement without the fence, with the literal in single quotes and with
\* exactly one ';' at its end, and query_cache then maps the key of the
\* (question, schema) to exactly the returned string.
C11_EndToEnd ==
    [][\A req \in SampleRequests, response \in SampleResponses, c \in FencedCases :
          (/\ use_gemini
           /\ CacheKeys[req] \notin DOMAIN query_cache
           /\ ~response.raises
           /\ response.text = c.raw
           /\ nl_to_sql(req[1], req[2], response))
          => /\ last'.outcome = "Done"
             /\ last'.result = c.sql
             /\ CacheKeys[req] \in DOMAIN query_cache'
             /\ query_cache'[CacheKeys[req]] = last'.result]_vars

\* the stated case was answered and cached
C11_Witness ==
    /\ last.outcome = "Done"
    /\ Generated(last)
    /\ last.schema = SampleSchema
    /\ last.response.text = RawSample
    /\ last.result = SqlSample
    /\ query_cache[CacheKeys[<<QuestionSample, SampleSchema>>]] = SqlSample

----------------------------------------------------------------------------
(* The methods of the pipeline applied on their own: the argument is drawn  *)
(* from a set of texts and the method is applied to it once.                *)

RECURSIVE Concat(_)
\* the parts written one after the other
Concat(parts) == IF parts = <<>> THEN <<>> ELSE Head(parts) \o Concat(Tail(parts))

\* the texts made of at most n of the given parts
TextsOf(parts, n) == {Concat(ps) : ps \in UNION {[1..k -> parts] : k \in 0..n}}

\* a method of the converter is applied to arg
Apply(method, result) ==
    /\ applied = "none"
    /\ applied' = method
    /\ out' = result
    /\ UNCHANGED <<arg, converter, window>>

----------------------------------------------------------------------------
(* Text2SQLConverter._format_enhanced_schema.  The bullet of the column     *)
(* lines is written as the character "BULLET".                              *)

StudentDesc == <<"T", "A", "B", "E", "L", "A", ":", " ", "s", "t", "u", "d", "e", "n", "t", " ", "-", " ", "I", "n", "f", "o", "r", "m", "a", "ç", "õ", "e", "s", " ", "d", "o", "s", " ", "e", "s", "t", "u", "d", "a", "n", "t", "e", "s", " ", "d", "a", " ", "u", "n", "i", "v", "e", "r", "s", "i", "d", "a", "d", "e">>

StudentColumns == <<
    <<"i", "d", " ", "(", "I", "N", "T", "E", "G", "E", "R", ",", " ", "P", "R", "I", "M", "A", "R", "Y", " ", "K", "E", "Y", ")", " ", "-", " ", "I", "D", " ", "ú", "n", "i", "c", "o", " ", "d", "o", " ", "e", "s", "t", "u", "d", "a", "n", "t", "e">>,
    <<"n", "a", "m", "e", " ", "(", "V", "A", "R", "C", "H", "A", "R", ")", " ", "-", " ", "N", "o", "m", "e", " ", "c", "o", "m", "p", "l", "e", "t", "o", " ", "d", "o", " ", "e", "s", "t", "u", "d", "a", "n", "t", "e">>,
    <<"d", "e", "p", "t", "_", "n", "a", "m", "e", " ", "(", "V", "A", "R", "C", "H", "A", "R", ",", " ", "F", "O", "R", "E", "I", "G", "N", " ", "K", "E", "Y", ")", " ", "-", " ", "N", "o", "m", "e", " ", "d", "o", " ", "d", "e", "p", "a", "r", "t", "a", "m", "e", "n", "t", "o", " ", "d", "o", " ", "e", "s", "t", "u", "d", "a", "n", "t", "e">>,
    <<"t", "o", "t", "_", "c", "r", "e", "d", " ", "(", "I", "N", "T", "E", "G", "E", "R", ")", " ", "-", " ", "T", "o", "t", "a", "l", " ", "d", "e", " ", "c", "r", "é", "d", "i", "t", "o", "s", " ", "a", "c", "u", "m", "u", "l", "a", "d", "o", "s">> >>

StudentRelationships == <<"C", "o", "n", "e", "c", "t", "a", " ", "c", "o", "m", ":", " ", "d", "e", "p", "a", "r", "t", "m", "e", "n", "t", " ", "(", "d", "e", "p", "t", "_", "n", "a", "m", "e", ")", ",", " ", "t", "a", "k", "e", "s", " ", "(", "i", "d", ")">>

InstructorDesc == <<"T", "A", "B", "E", "L", "A", ":", " ", "i", "n", "s", "t", "r", "u", "c", "t", "o", "r", " ", "-", " ", "I", "n", "f", "o", "r", "m", "a", "ç", "õ", "e", "s", " ", "d", "o", "s", " ", "p", "r", "o", "f", "e", "s", "s", "o", "r", "e", "s", "/", "i", "n", "s", "t", "r", "u", "t", "o", "r", "e", "s">>

InstructorColumns == <<
    <<"i", "d", " ", "(", "I", "N", "T", "E", "G", "E", "R", ",", " ", "P", "R", "I", "M", "A", "R", "Y", " ", "K", "E", "Y", ")", " ", "-", " ", "I", "D", " ", "ú", "n", "i", "c", "o", " ", "d", "o", " ", "p", "r", "o", "f", "e", "s", "s", "o", "r">>,
    <<"n", "a", "m", "e", " ", "(", "V", "A", "R", "C", "H", "A", "R", ")", " ", "-", " ", "N", "o", "m", "e", " ", "c", "o", "m", "p", "l", "e", "t", "o", " ", "d", "o", " ", "p", "r", "o", "f", "e", "s", "s", "o", "r">>,
    <<"d", "e", "p", "t", "_", "n", "a", "m", "e", " ", "(", "V", "A", "R", "C", "H", "A", "R", ",", " ", "F", "O", "R", "E", "I", "G", "N", " ", "K", "E", "Y", ")", " ", "-", " ", "D", "e", "p", "a", "r", "t", "a", "m", "e", "n", "t", "o", " ", "o", "n", "d", "e", " ", "l", "e", "c", "i", "o", "n", "a">>,
    <<"s", "a", "l", "a", "r", "y", " ", "(", "N", "U", "M", "E", "R", "I", "C", ")", " ", "-", " ", "S", "a", "l", "á", "r", "i", "o", " ", "d", "o", " ", "p", "r", "o", "f", "e", "s", "s", "o", "r">> >>

InstructorRelationships == <<"C", "o", "n", "e", "c", "t", "a", " ", "c", "o", "m", ":", " ", "d", "e", "p", "a", "r", "t", "m", "e", "n", "t", " ", "(", "d", "e", "p", "t", "_", "n", "a", "m", "e", ")">>

CourseDesc == <<"T", "A", "B", "E", "L", "A", ":", " ", "c", "o", "u", "r", "s", "e", " ", "-", " ", "C", "a", "t", "á", "l", "o", "g", "o", " ", "d", "e", " ", "c", "u", "r", "s", "o", "s", " ", "o", "f", "e", "r", "e", "c", "i", "d", "o", "s">>

CourseColumns == <<
    <<"c", "o", "u", "r", "s", "e", "_", "i", "d", " ", "(", "V", "A", "R", "C", "H", "A", "R", ",", " ", "P", "R", "I", "M", "A", "R", "Y", " ", "K", "E", "Y", ")", " ", "-", " ", "C", "ó", "d", "i", "g", "o", " ", "i", "d", "e", "n", "t", "i", "f", "i", "c", "a", "d", "o", "r", " ", "d", "o", " ", "c", "u", "r", "s", "o">>,
    <<"t", "i", "t", "l", "e", " ", "(", "V", "A", "R", "C", "H", "A", "R", ")", " ", "-", " ", "T", "í", "t", "u", "l", "o", "/", "n", "o", "m", "e", " ", "d", "o", " ", "c", "u", "r", "s", "o">>,
    <<"d", "e", "p", "t", "_", "n", "a", "m", "e", " ", "(", "V", "A", "R", "C", "H", "A", "R", ",", " ", "F", "O", "R", "E", "I", "G", "N", " ", "K", "E", "Y", ")", " ", "-", " ", "D", "e", "p", "a", "r", "t", "a", "m", "e", "n", "t", "o", " ", "q", "u", "e", " ", "o", "f", "e", "r", "e", "c", "e", " ", "o", " ", "c", "u", "r", "s", "o">>,
    <<"c", "r", "e", "d", "i", "t", "s", " ", "(", "I", "N", "T", "E", "G", "E", "R", ")", " ", "-", " ", "N", "ú", "m", "e", "r", "o", " ", "d", "e", " ", "c", "r", "é", "d", "i", "t", "o", "s", " ", "d", "o", " ", "c", "u", "r", "s", "o">> >>

CourseRelationships == <<"C", "o", "n", "e", "c", "t", "a", " ", "c", "o", "m", ":", " ", "d", "e", "p", "a", "r", "t", "m", "e", "n", "t", " ", "(", "d", "e", "p", "t", "_", "n", "a", "m", "e", ")", ",", " ", "t", "a", "k", "e", "s", " ", "(", "c", "o", "u", "r", "s", "e", "_", "i", "d", ")">>

TakesDesc == <<"T", "A", "B", "E", "L", "A", ":", " ", "t", "a", "k", "e", "s", " ", "-", " ", "R", "e", "g", "i", "s", "t", "r", "o", " ", "d", "e", " ", "m", "a", "t", "r", "í", "c", "u", "l", "a", "s", " ", "e", " ", "n", "o", "t", "a", "s", " ", "d", "o", "s", " ", "e", "s", "t", "u", "d", "a", "n", "t", "e", "s">>

TakesColumns == <<
    <<"i", "d", " ", "(", "I", "N", "T", "E", "G", "E", "R", ",", " ", "F", "O", "R", "E", "I", "G", "N", " ", "K", "E", "Y", ")", " ", "-", " ", "I", "D", " ", "d", "o", " ", "e", "s", "t", "u", "d", "a", "n", "t", "e", " ", "m", "a", "t", "r", "i", "c", "u", "l", "a", "d", "o">>,
    <<"c", "o", "u", "r", "s", "e", "_", "i", "d", " ", "(", "V", "A", "R", "C", "H", "A", "R", ",", " ", "F", "O", "R", "E", "I", "G", "N", " ", "K", "E", "Y", ")", " ", "-", " ", "I", "D", " ", "d", "o", " ", "c", "u", "r", "s", "o", " ", "m", "a", "t", "r", "i", "c", "u", "l", "a", "d", "o">>,
    <<"s", "e", "c", "_", "i", "d", " ", "(", "I", "N", "T", "E", "G", "E", "R", ")", " ", "-", " ", "I", "D", " ", "d", "a", " ", "s", "e", "ç", "ã", "o", "/", "t", "u", "r", "m", "a">>,
    <<"s", "e", "m", "e", "s", "t", "e", "r", " ", "(", "V", "A", "R", "C", "H", "A", "R", ")", " ", "-", " ", "S", "e", "m", "e", "s", "t", "r", "e", " ", "(", "F", "a", "l", "l", ",", " ", "S", "p", "r", "i", "n", "g", ",", " ", "S", "u", "m", "m", "e", "r", ")">>,
    <<"y", "e", "a", "r", " ", "(", "I", "N", "T", "E", "G", "E", "R", ")", " ", "-", " ", "A", "n", "o", " ", "l", "e", "t", "i", "v", "o", " ", "(", "e", "x", ":", " ", "2", "0", "2", "4", ",", " ", "2", "0", "2", "3", ")">>,
    <<"g", "r", "a", "d", "e", " ", "(", "N", "U", "M", "E", "R", "I", "C", ")", " ", "-", " ", "N", "o", "t", "a", " ", "f", "i", "n", "a", "l", " ", "d", "o", " ", "e", "s", "t", "u", "d", "a", "n", "t", "e", " ", "(", "0", "-", "1", "0", ",", " ", "p", "o", "d", "e", " ", "s", "e", "r", " ", "N", "U", "L", "L", " ", "s", "e", " ", "n", "ã", "o", " ", "a", "v", "a", "l", "i", "a", "d", "o", ")">> >>

TakesRelationships == <<"T", "A", "B", "E", "L", "A", " ", "D", "E", " ", "R", "E", "L", "A", "C", "I", "O", "N", "A", "M", "E", "N", "T", "O", ":", " ", "c", "o", "n", "e", "c", "t", "a", " ", "s", "t", "u", "d", "e", "n", "t", " ", "(", "i", "d", ")", " ", "c", "o", "m", " ", "c", "o", "u", "r", "s", "e", " ", "(", "c", "o", "u", "r", "s", "e", "_", "i", "d", ")">>

DepartmentDesc == <<"T", "A", "B", "E", "L", "A", ":", " ", "d", "e", "p", "a", "r", "t", "m", "e", "n", "t", " ", "-", " ", "D", "e", "p", "a", "r", "t", "a", "m", "e", "n", "t", "o", "s", " ", "d", "a", " ", "u", "n", "i", "v", "e", "r", "s", "i", "d", "a", "d", "e">>

DepartmentColumns == <<
    <<"d", "e", "p", "t", "_", "n", "a", "m", "e", " ", "(", "V", "A", "R", "C", "H", "A", "R", ",", " ", "P", "R", "I", "M", "A", "R", "Y", " ", "K", "E", "Y", ")", " ", "-", " ", "N", "o", "m", "e", " ", "d", "o", " ", "d", "e", "p", "a", "r", "t", "a", "m", "e", "n", "t", "o">>,
    <<"b", "u", "i", "l", "d", "i", "n", "g", " ", "(", "V", "A", "R", "C", "H", "A", "R", ")", " ", "-", " ", "P", "r", "é", "d", "i", "o", " ", "o", "n", "d", "e", " ", "f", "i", "c", "a", " ", "l", "o", "c", "a", "l", "i", "z", "a", "d", "o">>,
    <<"b", "u", "d", "g", "e", "t", " ", "(", "N", "U", "M", "E", "R", "I", "C", ")", " ", "-", " ", "O", "r", "ç", "a", "m", "e", "n", "t", "o", " ", "d", "o", " ", "d", "e", "p", "a", "r", "t", "a", "m", "e", "n", "t", "o">> >>

DepartmentRelationships == <<"C", "o", "n", "e", "c", "t", "a", " ", "c", "o", "m", ":", " ", "s", "t", "u", "d", "e", "n", "t", ",", " ", "i", "n", "s", "t", "r", "u", "c", "t", "o", "r", ",", " ", "c", "o", "u", "r", "s", "e", " ", "(", "d", "e", "p", "t", "_", "n", "a", "m", "e", ")">>

\* enhanced_descriptions, in the order of the loop over the table names
enhanced_descriptions == <<
    [table_name |-> Student, desc |-> StudentDesc, columns |-> StudentColumns, relationships |-> StudentRelationships],
    [table_name |-> Instructor, desc |-> InstructorDesc, columns |-> InstructorColumns, relationships |-> InstructorRelationships],
    [table_name |-> Course, desc |-> CourseDesc, columns |-> CourseColumns, relationships |-> CourseRelationships],
    [table_name |-> Takes, desc |-> TakesDesc, columns |-> TakesColumns, relationships |-> TakesRelationships],
    [table_name |-> Department, desc |-> DepartmentDesc, columns |-> DepartmentColumns, relationships |-> DepartmentRelationships] >>

\* table_name in schema
HasTable(schema, table_name) == \E i \in 1..Len(schema) : schema[i][1] = table_name

\* the text added to schema_text for one table
TableBlock(info) ==
    <<"\n">> \o info.desc \o <<"\n">>
        \o <<"C", "o", "l", "u", "n", "a", "s", ":", "\n">>
        \o Concat([i \in 1..Len(info.columns) |-> <<" ", " ", "BULLET", " ">> \o info.columns[i] \o <<"\n">>])
        \o <<"R", "e", "l", "a", "c", "i", "o", "n", "a", "m", "e", "n", "t", "o", "s", ":", " ">> \o info.relationships \o <<"\n", "\n">>

\* the formatting that lists the columns the schema supplies
_format_supplied_schema(schema) ==
    Concat([i \in 1..Len(schema) |->
               <<"\n">> \o schema[i][1] \o <<"\n">>
                   \o Concat([j \in 1..Len(schema[i][2]) |-> <<" ", " ", "BULLET", " ">> \o schema[i][2][j] \o <<"\n">>])])

_format_enhanced_schema(schema) ==
    Concat([i \in 1..Len(enhanced_descriptions) |->
               IF HasTable(schema, enhanced_descriptions[i].table_name)
               THEN TableBlock(enhanced_descriptions[i])
               ELSE <<>>])

----------------------------------------------------------------------------
(* _is_valid_sql applied on its own                                        *)

PartSelect == <<"S", "E", "L", "E", "C", "T">>

PartStatement == <<"S", "E", "L", "E", "C", "T", " ", "1", " ", "F", "R", "O", "M", " ", "t">>

PartFromLower == <<"f", "r", "o", "m">>

PartSelectLower == <<"s", "e", "l", "e", "c", "t">>

PartSemicolon == <<";">>

PartBlank == <<" ">>

PartNewline == <<"\n">>

PartAvg == <<"s", "e", "l", "e", "c", "t", " ", "a", "v", "g", "(", "t", "1", ".", "g", "r", "a", "d", "e", ")">>

PartLetter == <<"x">>

ValidParts == {PartSelect, PartStatement, PartFromLower, PartSelectLower, PartSemicolon,
               PartBlank, PartNewline, PartAvg, PartLetter}

\* the texts given to _is_valid_sql are made of at most this many parts
MaxValidParts == 3

\* a statement of the given length: PartStatement, letters and a semicolon
LongStatement(length) ==
    PartStatement \o [i \in 1..(length - Len(PartStatement) - 1) |-> "x"] \o PartSemicolon

\* the texts given to _is_valid_sql
ValidTexts ==
    TextsOf(ValidParts, MaxValidParts)
        \cup {LongStatement(MaxSqlLen - 1), LongStatement(MaxSqlLen)}

InitValid == Constructed /\ NoWindow /\ applied = "none" /\ out = <<>> /\ arg \in ValidTexts

ApplyValid == Apply("_is_valid_sql", _is_valid_sql(arg))

SpecValid == InitValid /\ [][ApplyValid]_vars

\* C12, as claimed: _is_valid_sql(text) is true exactly when text holds
\* SELECT, holds FROM, has its first SELECT before its first FROM, ends
\* with ';', is longer than 10 and shorter than 2000 characters and is
\* not one of the refused fragments.
C12_ValidIffAsClaimed ==
    applied = "_is_valid_sql" =>
        (out <=> /\ Contains(Upper(arg), KwSelect)
                 /\ Contains(Upper(arg), KwFrom)
                 /\ Find(Upper(arg), KwSelect) < Find(Upper(arg), KwFrom)
                 /\ EndsWith(arg, PartSemicolon)
                 /\ MinSqlLen < Len(arg) /\ Len(arg) < MaxSqlLen
                 /\ Upper(arg) \notin Fragments)

\* C12, amended: _is_valid_sql(text) is true exactly when text holds
\* SELECT, holds FROM, has its first SELECT before its first FROM, ends
\* with ';' once the whitespace around it is removed, is longer than 10
\* and shorter than 2000 characters as given, and is not one of the refused
\* fragments; 'SELECT;' is refused and 'SELECT 1 FROM t;' is accepted.
C12_ValidIff ==
    applied = "_is_valid_sql" =>
        /\ out <=> /\ Contains(Upper(arg), KwSelect)
                    /\ Contains(Upper(arg), KwFrom)
                    /\ Find(Upper(arg), KwSelect) < Find(Upper(arg), KwFrom)
                    /\ EndsWith(Strip(arg), PartSemicolon)
                    /\ MinSqlLen < Len(arg) /\ Len(arg) < MaxSqlLen
                    /\ Strip(Upper(arg)) \notin Fragments
        /\ arg = PartSelect \o PartSemicolon => ~out
        /\ arg = PartStatement \o PartSemicolon => out

\* a statement followed by whitespace was accepted
C12_Witness ==
    /\ applied = "_is_valid_sql"
    /\ arg = PartStatement \o PartSemicolon \o PartNewline
    /\ out

----------------------------------------------------------------------------
(* _clean_sql_response applied on its own                                  *)

LineFenceSql == <<"BQ", "BQ", "BQ", "s", "q", "l">>

LineFence == <<"BQ", "BQ", "BQ">>

LineStatement == <<"S", "E", "L", "E", "C", "T", " ", "1", " ", "F", "R", "O", "M", " ", "t", ";">>

LineSelectLower == <<"s", "e", "l", "e", "c", "t", " ", "2", " ", "f", "r", "o", "m", " ", "u">>

LineProse == <<"f", "o", "o">>

LineSemicolon == <<";">>

CleanLineKinds == {LineFenceSql, LineFence, LineStatement, LineSelectLower, LineProse,
                   LineSemicolon}

\* the texts given to _clean_sql_response have at most this many lines
MaxCleanLines == 4

\* the texts given to _clean_sql_response
CleanTexts ==
    {Join(ls, <<"\n">>) : ls \in UNION {[1..k -> CleanLineKinds] : k \in 1..MaxCleanLines}}

InitClean == Constructed /\ NoWindow /\ applied = "none" /\ out = <<>> /\ arg \in CleanTexts

ApplyClean == Apply("_clean_sql_response", _clean_sql_response(arg))

SpecClean == InitClean /\ [][ApplyClean]_vars

\* line i is no fence line and an odd number of fence lines precede it
InsideFences(lines, i) ==
    /\ ~StartsWith(lines[i], Fence)
    /\ Cardinality({j \in 1..(i - 1) : StartsWith(lines[j], Fence)}) % 2 = 1

\* the lines at the positions in idx, in their order
LinesAt(lines, idx) ==
    [k \in 1..Cardinality(idx) |->
        lines[CHOOSE i \in idx : Cardinality({j \in idx : j < i}) = k - 1]]

\* C13: of a text that begins with a fence, _clean_sql_response keeps only
\* the lines between an opening fence and its closing fence: the output is
\* that of the lines inside the fences alone.
C13_OnlyInsideFences ==
    (applied = "_clean_sql_response" /\ StartsWith(arg, Fence)) =>
        LET lines == Split(arg, "\n")
            inside == {i \in 1..Len(lines) : InsideFences(lines, i)}
        IN  out = _clean_sql_response(Join(LinesAt(lines, inside), <<"\n">>))

\* C14: the output of _clean_sql_response ends with exactly one ';': its
\* last character is ';' and what precedes it ends neither with ';' nor
\* with ';' and whitespace.
C14_OneTerminator ==
    applied = "_clean_sql_response" =>
        /\ EndsWith(out, <<";">>)
        /\ ~EndsWith(RStripSet(SubSeq(out, 1, Len(out) - 1), WhiteSpace), <<";">>)

----------------------------------------------------------------------------
(* _format_enhanced_schema applied on its own                              *)

Advisor == <<"a", "d", "v", "i", "s", "o", "r">>

ColSId == <<"s", "_", "i", "d">>

ColIId == <<"i", "_", "i", "d">>

ColEmail == <<"e", "m", "a", "i", "l">>

\* the tables a schema is made of: the five of the sample schema, student
\* with other columns, and a table the converter has no description of
TableItems == {SampleSchema[i] : i \in 1..Len(SampleSchema)}
                  \cup {<<Student, <<ColId, ColName, ColEmail>> >>, <<Advisor, <<ColSId, ColIId>> >>}

\* a schema has at most this many tables
MaxTables == 2

\* the schemas given to _format_enhanced_schema: the tables of a dict have
\* different names
FormatSchemas ==
    {schema \in UNION {[1..k -> TableItems] : k \in 0..MaxTables} :
        \A i \in 1..Len(schema), j \in 1..Len(schema) : schema[i][1] = schema[j][1] => i = j}

InitFormat == Constructed /\ NoWindow /\ applied = "none" /\ out = <<>> /\ arg \in FormatSchemas

\* _format_enhanced_schema on each of the schemas
FormattedSchemas == [schema \in FormatSchemas |-> _format_enhanced_schema(schema)]

ApplyFormat == Apply("_format_enhanced_schema", FormattedSchemas[arg])

SpecFormat == InitFormat /\ [][ApplyFormat]_vars

\* the names of the tables the converter has a description of
KnownTables == {enhanced_descriptions[i].table_name : i \in 1..Len(enhanced_descriptions)}

\* the tables of a schema that the converter has a description of
KnownIn(schema) == {schema[i][1] : i \in 1..Len(schema)} \cap KnownTables

ColumnMark == <<" ", " ", "BULLET", " ">>

\* C15: each table of the schema that is not one of the five known tables
\* is rendered by _format_enhanced_schema with its name and the names of
\* its columns, and no table of the schema is absent from the text.
C15_EveryTableRendered ==
    applied = "_format_enhanced_schema" =>
        \A i \in 1..Len(arg) :
            /\ Contains(out, arg[i][1])
            /\ arg[i][1] \notin KnownTables =>
                   \A j \in 1..Len(arg[i][2]) : Contains(out, arg[i][2][j])

\* C16, as claimed: the block of a known table lists one line per column
\* that the supplied schema gives for it, and two schemas with the same
\* known tables and different column lists give different texts.
C16_ColumnsAsSupplied ==
    applied = "_format_enhanced_schema" =>
        /\ \A i \in 1..Len(arg) :
               arg[i][1] \in KnownTables =>
                   \A j \in 1..Len(arg[i][2]) : Contains(out, ColumnMark \o arg[i][2][j])
        /\ \A other \in FormatSchemas :
               (KnownIn(other) = KnownIn(arg) /\ KnownIn(arg) # {}
                   /\ \E i \in 1..Len(arg), j \in 1..Len(other) :
                          arg[i][1] = other[j][1] /\ arg[i][1] \in KnownTables
                              /\ arg[i][2] # other[j][2])
               => FormattedSchemas[other] # out

\* C16, amended: the block of a known table is the text built into the
\* converter for the name of the table, one line per column of the
\* built-in description; the columns of the supplied schema are not read,
\* and two schemas with the same known tables give the same text whatever
\* their column lists are.
C16_ColumnsBuiltIn ==
    applied = "_format_enhanced_schema" =>
        /\ \A i \in 1..Len(enhanced_descriptions) :
               LET info == enhanced_descriptions[i] IN
               \A j \in 1..Len(info.columns) :
                   Contains(out, ColumnMark \o info.columns[j] \o <<"\n">>)
                       <=> info.table_name \in KnownIn(arg)
        /\ Count(out, ColumnMark) =
               Len(Concat([i \in 1..Len(enhanced_descriptions) |->
                              IF enhanced_descriptions[i].table_name \in KnownIn(arg)
                              THEN enhanced_descriptions[i].columns ELSE <<>>]))
        /\ \A other \in FormatSchemas :
               KnownIn(other) = KnownIn(arg) => FormattedSchemas[other] = out

\* student was given with columns that differ from the built-in ones: the
\* text lists the built-in column and not the supplied one
C16_Witness ==
    /\ applied = "_format_enhanced_schema"
    /\ \E i \in 1..Len(arg) : arg[i] = <<Student, <<ColId, ColName, ColEmail>> >>
    /\ Contains(out, ColumnMark \o ColTotCred)
    /\ ~Contains(out, ColEmail)

----------------------------------------------------------------------------
(* _fix_quotes applied on its own.  A statement is given as its tokens: a   *)
(* double-quoted token is an identifier or a string literal, the text       *)
(* between two of them is code.                                             *)

PartSelectFrom == <<
    [kind |-> "code", text |-> <<"S", "E", "L", "E", "C", "T", " ", "a", " ", "F", "R", "O", "M", " ", "t">>] >>

PartJoin == <<
    [kind |-> "code", text |-> <<" ", "J", "O", "I", "N", " ">>],
    [kind |-> "identifier", text |-> <<"\"", "u", "\"">>] >>

PartOn == <<
    [kind |-> "code", text |-> <<" ", "O", "N", " ", "t", ".", "i", "d", " ", "=", " ">>],
    [kind |-> "identifier", text |-> <<"\"", "u", "\"">>],
    [kind |-> "code", text |-> <<".", "i", "d">>] >>

PartAlias == <<
    [kind |-> "code", text |-> <<" ", "A", "S", " ">>],
    [kind |-> "identifier", text |-> <<"\"", "n", "\"">>] >>

PartWhere == <<
    [kind |-> "code", text |-> <<" ", "W", "H", "E", "R", "E", " ", "d", "e", "p", "t", "_", "n", "a", "m", "e", " ", "=", " ">>],
    [kind |-> "literal", text |-> <<"\"", "F", "i", "n", "a", "n", "c", "e", "\"">>] >>

PartLike == <<
    [kind |-> "code", text |-> <<" ", "A", "N", "D", " ", "a", " ", "L", "I", "K", "E", " ">>],
    [kind |-> "literal", text |-> <<"\"", "x", "%", "\"">>] >>

QuoteParts == {PartSelectFrom, PartJoin, PartOn, PartAlias, PartWhere, PartLike}

\* a statement given to _fix_quotes is made of at most this many parts
MaxQuoteParts == 3

\* the statements given to _fix_quotes, as token sequences
QuoteStatements == TextsOf(QuoteParts, MaxQuoteParts)

\* the text of a token sequence
TokenText(tokens) == Concat([i \in 1..Len(tokens) |-> tokens[i].text])

InitQuotes == Constructed /\ NoWindow /\ applied = "none" /\ out = <<>> /\ arg \in QuoteStatements

ApplyQuotes == Apply("_fix_quotes", _fix_quotes(TokenText(arg)))

SpecQuotes == InitQuotes /\ [][ApplyQuotes]_vars

\* what stands in text at the place of token i of the sequence
TextAt(text, tokens, i) ==
    LET before == Len(TokenText(SubSeq(tokens, 1, i - 1)))
    IN  SubSeq(text, before + 1, before + Len(tokens[i].text))

\* a double-quoted token with single quotes around the same content
SingleQuoted(token) ==
    <<"'">> \o SubSeq(token.text, 2, Len(token.text) - 1) \o <<"'">>

\* C17: _fix_quotes leaves every double-quoted identifier as it is, also
\* one on the right of '=' in a join condition, and turns only the
\* double-quoted string literals that follow =, LIKE or IN into
\* single-quoted literals of the same content.
C17_IdentifiersKept ==
    applied = "_fix_quotes" =>
        /\ Len(out) = Len(TokenText(arg))
        /\ \A i \in 1..Len(arg) :
               TextAt(out, arg, i) = IF arg[i].kind = "literal"
                                     THEN SingleQuoted(arg[i])
                                     ELSE arg[i].text

----------------------------------------------------------------------------
(* MainWindow and QueryWorker of app.py: the handlers run one at a time in  *)
(* the thread of the window, the workers run in threads of their own and    *)
(* their signals are queued for the thread of the window.                   *)

\* MainWindow.__init__: connect_to_database leaves the schema of the
\* database, which may have no table, or the sample schema; the converter
\* is constructed by auto_connect_gemini
InitWindow ==
    /\ Constructed
    /\ NoApplication
    /\ window_schema \in {SampleSchema, <<>>}
    /\ query_input = <<>>
    /\ sql_display = <<>>
    /\ results_table = <<>>
    /\ execute_enabled = TRUE
    /\ query_history = <<>>
    /\ workers = <<>>
    /\ worker = 0
    /\ signals = <<>>
    /\ crashed = FALSE

\* MainWindow.execute_query
execute_query ==
    LET nl_query == Strip(query_input) IN
    IF window_schema = <<>> \/ nl_query = <<>>
    THEN UNCHANGED vars
    ELSE /\ Len(workers) < MaxWorkers
         /\ query_input' = nl_query
         /\ sql_display' = <<>>
         /\ results_table' = <<>>
         /\ execute_enabled' = FALSE
         /\ workers' = Append(workers, [nl_query |-> nl_query, schema |-> window_schema,
                                         pc |-> "started", sql |-> <<>>])
         /\ worker' = Len(workers) + 1
         /\ UNCHANGED <<window_schema, query_history, signals, crashed, converter, application>>

\* the button Executar is clicked: a disabled button takes no click
ClickExecute == ~crashed /\ execute_enabled /\ execute_query

\* the action Executar of the menu Consulta, or its shortcut Ctrl+Return
MenuExecute == ~crashed /\ execute_query

\* MainWindow.clear_query, on a click of the button Limpar
clear_query ==
    /\ ~crashed
    /\ query_input' = <<>>
    /\ sql_display' = <<>>
    /\ results_table' = <<>>
    /\ UNCHANGED <<window_schema, execute_enabled, query_history, workers, worker, signals,
                   crashed, converter, application>>

\* the user edits the question field
EditQuestion ==
    /\ ~crashed
    /\ \E text \in TypedTexts : query_input' = text
    /\ UNCHANGED <<window_schema, sql_display, results_table, execute_enabled, query_history,
                   workers, worker, signals, crashed, converter, application>>

\* QueryWorker.run up to its first signal: nl_to_sql on the converter of
\* the window, then query_generated, or error_occurred when it raised
WorkerTranslate(w) ==
    /\ ~crashed
    /\ workers[w].pc = "started"
    /\ \E response \in WindowResponses : nl_to_sql(workers[w].nl_query, workers[w].schema, response)
    /\ IF last'.outcome = "Done"
       THEN /\ workers' = [workers EXCEPT ![w].pc = "generated", ![w].sql = last'.result]
            /\ signals' = Append(signals, [signal |-> "query_generated", sql |-> last'.result])
       ELSE /\ workers' = [workers EXCEPT ![w].pc = "returning"]
            /\ signals' = Append(signals, [signal |-> "error_occurred", sql |-> <<>>])
    /\ UNCHANGED <<window_schema, query_input, sql_display, results_table, execute_enabled,
                   query_history, worker, crashed, application>>

\* QueryWorker.run from the call of execute_query(engine, sql) on: the
\* database answers with rows, or the call raises
WorkerExecute(w) ==
    /\ ~crashed
    /\ workers[w].pc = "generated"
    /\ \E answered \in BOOLEAN :
           signals' = Append(signals, [signal |-> IF answered THEN "query_executed"
                                                  ELSE "error_occurred",
                                       sql |-> workers[w].sql])
    /\ workers' = [workers EXCEPT ![w].pc = "returning"]
    /\ UNCHANGED <<window_schema, query_input, sql_display, results_table, execute_enabled,
                   query_history, worker, crashed, converter, application>>

\* run has returned: the thread ends and the signal finished is sent
WorkerReturn(w) ==
    /\ ~crashed
    /\ workers[w].pc = "returning"
    /\ workers' = [workers EXCEPT ![w].pc = "finished"]
    /\ signals' = Append(signals, [signal |-> "finished", sql |-> <<>>])
    /\ UNCHANGED <<window_schema, query_input, sql_display, results_table, execute_enabled,
                   query_history, worker, crashed, converter, application>>

\* run has returned in a worker that MainWindow.worker no longer refers
\* to: nothing keeps the QThread object, and it may be destroyed while its
\* thread is running, which aborts the process
WorkerDestroyed(w) ==
    /\ ~crashed
    /\ workers[w].pc = "returning"
    /\ w # worker
    /\ crashed' = TRUE
    /\ UNCHANGED <<window_schema, query_input, sql_display, results_table, execute_enabled,
                   query_history, workers, worker, signals, converter, application>>

\* MainWindow.on_query_generated
on_query_generated(sql_query) ==
    /\ sql_display' = sql_query
    /\ UNCHANGED <<query_input, results_table, execute_enabled, query_history>>

\* MainWindow.on_query_executed, with display_results and add_to_history
on_query_executed(rows) ==
    /\ results_table' = rows
    /\ query_history' = Append(query_history, [nl |-> query_input, sql |-> sql_display])
    /\ UNCHANGED <<query_input, sql_display, execute_enabled>>

\* MainWindow.on_error: a message box
on_error == UNCHANGED <<query_input, sql_display, results_table, execute_enabled, query_history>>

\* MainWindow.on_worker_finished
on_worker_finished ==
    /\ execute_enabled' = TRUE
    /\ UNCHANGED <<query_input, sql_display, results_table, query_history>>

\* the thread of the window takes the oldest queued signal to its slot
Deliver ==
    /\ ~crashed
    /\ signals # <<>>
    /\ signals' = Tail(signals)
    /\ LET sig == Head(signals) IN
       CASE sig.signal = "query_generated" -> on_query_generated(sig.sql)
         [] sig.signal = "query_executed" -> on_query_executed(sig.sql)
         [] sig.signal = "error_occurred" -> on_error
         [] sig.signal = "finished" -> on_worker_finished
    /\ UNCHANGED <<window_schema, workers, worker, crashed, converter, application>>

NextWindow ==
    \/ ClickExecute
    \/ MenuExecute
    \/ clear_query
    \/ EditQuestion
    \/ Deliver
    \/ \E w \in 1..Len(workers) : WorkerTranslate(w)
    \/ \E w \in 1..Len(workers) : WorkerExecute(w)
    \/ \E w \in 1..Len(workers) : WorkerReturn(w)
    \/ \E w \in 1..Len(workers) : WorkerDestroyed(w)

SpecWindow == InitWindow /\ [][NextWindow]_vars

\* the workers whose thread has not ended
Running == {w \in 1..Len(workers) : workers[w].pc # "finished"}

\* C18: in the window at most one translation is in flight on the
\* converter: no worker is started while a worker started before it has not
\* finished, whatever the order of clicks on Executar, uses of the menu
\* action or its shortcut, clicks on Limpar and completions of workers.
C18_OneWorkerInFlight == Cardinality(Running) <= 1

----------------------------------------------------------------------------
(* The counter of nl_to_sql.                                               *)

\* C19, as claimed: a call that blocks at the rate gate leaves query_count
\* at 0 when it has finished: it is not counted toward the new window.
C19_BlockedCallNotCounted ==
    [][\A req \in Requests, response \in Responses :
          (/\ use_gemini
           /\ CacheKeys[req] \notin DOMAIN query_cache
           /\ query_count >= RateLimit
           /\ now - start_time < Window
           /\ nl_to_sql(req[1], req[2], response))
          => query_count' = 0]_vars

\* C19, amended: a call that blocks at the rate gate resets query_count to
\* 0 and is then counted once the collaborator has answered: after it
\* query_count is 1 when the collaborator returned a text, accepted or
\* rejected, and 0 when the collaborator raised.
C19_BlockedCallCounted ==
    [][\A req \in Requests, response \in Responses :
          (/\ use_gemini
           /\ CacheKeys[req] \notin DOMAIN query_cache
           /\ query_count >= RateLimit
           /\ now - start_time < Window
           /\ nl_to_sql(req[1], req[2], response))
          => query_count' = IF response.raises THEN 0 ELSE 1]_vars

\* a call slept at the gate, obtained a text and left the counter at 1
C19_Witness ==
    /\ last.slept > 0
    /\ last.outcome \in {"Done", "Rejected"}
    /\ query_count = 1
    /\ start_time = now

\* C20: every call that misses the cache and gets past the rate gate is
\* counted: it leaves query_count one above the value the gate left,
\* whether the collaborator returns a text that is accepted, returns a text
\* that is rejected, or raises.
C20_EveryMissCounted ==
    [][\A req \in Requests, response \in Responses :
          (/\ use_gemini
           /\ CacheKeys[req] \notin DOMAIN query_cache
           /\ nl_to_sql(req[1], req[2], response))
          => query_count' = (IF query_count >= RateLimit /\ now - start_time < Window
                             THEN 0 ELSE query_count) + 1]_vars

----------------------------------------------------------------------------
(* nl_to_sql, statement by statement.  A calling thread holds one          *)
(* invocation at a time; what it read and where it stands is its frame.    *)

\* the threads that call nl_to_sql on the one converter
MaxThreads == 2

\* the frame of an invocation
Frame(nl_query, schema, pc, elapsed, slept, result, outcome, events) ==
    [nl_query |-> nl_query, schema |-> schema, pc |-> pc, elapsed |-> elapsed,
     slept |-> slept, result |-> result, outcome |-> outcome, events |-> events]

\* the invocation of thread t has returned or raised
Finished(t) == frames[t].pc = "done"

InProgress == {t \in 1..Len(frames) : ~Finished(t)}

\* thread t moves on to the next statement, its frame becoming f
Goto(t, f) ==
    /\ frames' = [frames EXCEPT ![t] = f]
    /\ UNCHANGED <<overlapped, application, window>>

\* thread t reaches pc after the events seen
Continue(t, pc, seen) ==
    Goto(t, [frames[t] EXCEPT !.pc = pc, !.events = @ \o seen])

\* the invocation of thread t ends with outcome, returning result if any
Finish(t, outcome, result, seen) ==
    Goto(t, [frames[t] EXCEPT !.pc = "done", !.outcome = outcome, !.result = result,
                              !.events = @ \o seen])

\* thread t calls nl_to_sql(nl_query, schema): its earlier invocation, if
\* any, has ended
Invoke(t, nl_query, schema) ==
    /\ now <= MaxTime
    /\ query_count < MaxCount
    /\ t \in 1..(Len(frames) + 1)
    /\ t <= Len(frames) => Finished(t)
    /\ frames' = LET f == Frame(nl_query, schema, "lookup", 0, 0, <<>>, "None", <<>>)
                 IN  IF t > Len(frames) THEN Append(frames, f) ELSE [frames EXCEPT ![t] = f]
    /\ overlapped' = (overlapped \/ InProgress # {})
    /\ UNCHANGED <<gemini_api_key, use_gemini, query_cache, query_count, start_time, now, last,
                   history, application, window>>

\* the test of use_gemini, the cache key and the lookup
Lookup(t) ==
    /\ frames[t].pc = "lookup"
    /\ IF NotConfigured(use_gemini)
       THEN Finish(t, "NotConfigured", <<>>, <<>>)
       ELSE LET key == CacheKeys[<<frames[t].nl_query, frames[t].schema>>] IN
            IF CacheHit(query_cache, key)
            THEN Finish(t, "Done", query_cache[key], <<"lookup">>)
            ELSE Continue(t, "gate", <<"lookup">>)
    /\ UNCHANGED <<gemini_api_key, use_gemini, query_cache, query_count, start_time, now, last,
                   history>>

\* elapsed is taken and the rate gate is tested
RateGate(t) ==
    /\ frames[t].pc = "gate"
    /\ LET elapsed == now - start_time IN
       Goto(t, [frames[t] EXCEPT !.elapsed = elapsed,
                                 !.pc = IF RateBlocked(query_count, elapsed)
                                        THEN "sleep" ELSE "generate"])
    /\ UNCHANGED <<gemini_api_key, use_gemini, query_cache, query_count, start_time, now, last,
                   history>>

\* time.sleep(60 - elapsed) has returned
Sleep(t) ==
    /\ frames[t].pc = "sleep"
    /\ LET slept == SleepTime(frames[t].elapsed) IN
       /\ now' = now + slept
       /\ Goto(t, [frames[t] EXCEPT !.pc = "reset", !.slept = slept, !.events = @ \o <<"sleep">>])
    /\ UNCHANGED <<gemini_api_key, use_gemini, query_cache, query_count, start_time, last,
                   history>>

\* self.start_time = time.time() and self.query_count = 0
Reset(t) ==
    /\ frames[t].pc = "reset"
    /\ start_time' = now
    /\ query_count' = 0
    /\ window_calls' = 0
    /\ Continue(t, "generate", <<"reset">>)
    /\ UNCHANGED <<gemini_api_key, use_gemini, query_cache, now, last, invoked, accepted_calls,
                   stored_schema>>

\* result = self._gemini_generate_sql(nl_query, schema), the collaborator
\* answering response
Generate(t, response) ==
    /\ frames[t].pc = "generate"
    /\ invoked' = invoked \cup {CacheKeys[<<frames[t].nl_query, frames[t].schema>>]}
    /\ LET answer == CollaboratorCall(response) IN
       IF answer.raised
       THEN /\ Finish(t, "Failed", <<>>, answer.events)
            /\ UNCHANGED window_calls
       ELSE /\ Goto(t, [frames[t] EXCEPT !.pc = "count", !.result = answer.sql,
                                         !.events = @ \o answer.events])
            /\ window_calls' = IF now - start_time < Window THEN window_calls + 1
                               ELSE window_calls
    /\ UNCHANGED <<gemini_api_key, use_gemini, query_cache, query_count, start_time, now, last,
                   accepted_calls, stored_schema>>

\* self.query_count += 1
Increment(t) ==
    /\ frames[t].pc = "count"
    /\ query_count' = query_count + 1
    /\ Continue(t, "validate", <<"count">>)
    /\ UNCHANGED <<gemini_api_key, use_gemini, query_cache, start_time, now, last, history>>

\* the validation, then the store and the return, or the raise
Validate(t) ==
    /\ frames[t].pc = "validate"
    /\ LET key == CacheKeys[<<frames[t].nl_query, frames[t].schema>>]
           result == frames[t].result
       IN  IF Accepted(result)
           THEN /\ query_cache' = StoreResult(query_cache, key, result)
                /\ accepted_calls' = [accepted_calls EXCEPT ![key] = @ + 1]
                /\ stored_schema' = StoreResult(stored_schema, key, frames[t].schema)
                /\ Finish(t, "Done", result, <<"validate", "store">>)
           ELSE /\ Finish(t, "Rejected", <<>>, <<"validate">>)
                /\ UNCHANGED <<query_cache, accepted_calls, stored_schema>>
    /\ UNCHANGED <<gemini_api_key, use_gemini, query_count, start_time, now, last, invoked,
                   window_calls>>

\* a statement of the invocation of thread t
Statement(t) ==
    \/ Lookup(t)
    \/ RateGate(t)
    \/ Sleep(t)
    \/ Reset(t)
    \/ \E response \in SampleResponses : Generate(t, response)
    \/ Increment(t)
    \/ Validate(t)

\* the single caller: it calls again when its call has ended
CallAlone == \E req \in SampleRequests : Invoke(1, req[1], req[2])

\* a thread that is in nl_to_sql executes its next statement
Proceed == \E t \in 1..Len(frames) : Statement(t)

NextSteps ==
    \/ CallAlone
    \/ Advance
    \/ \E t \in 1..Len(frames) : Lookup(t)
    \/ \E t \in 1..Len(frames) : RateGate(t)
    \/ \E t \in 1..Len(frames) : Sleep(t)
    \/ \E t \in 1..Len(frames) : Reset(t)
    \/ \E t \in 1..Len(frames), response \in SampleResponses : Generate(t, response)
    \/ \E t \in 1..Len(frames) : Increment(t)
    \/ \E t \in 1..Len(frames) : Validate(t)

SpecSteps == Init /\ [][NextSteps]_vars

\* the thread is scheduled as long as it is in nl_to_sql, and the
\* collaborator returns or raises
SpecStepsFair == SpecSteps /\ WF_vars(Proceed)

\* any thread calls, whether or not another one is in nl_to_sql.  Each
\* statement is one step; the interpreter may switch threads inside a
\* statement as well, so the interleavings of SpecThreads are among those
\* of the program: what is reachable here is reachable there, and an
\* execution without overlap is the same at either grain.
CallAny == \E t \in 1..MaxThreads, req \in SampleRequests : Invoke(t, req[1], req[2])

NextThreads ==
    \/ CallAny
    \/ \E t \in 1..Len(frames) : Lookup(t)
    \/ \E t \in 1..Len(frames) : RateGate(t)
    \/ \E t \in 1..Len(frames) : Sleep(t)
    \/ \E t \in 1..Len(frames) : Reset(t)
    \/ \E t \in 1..Len(frames), response \in SampleResponses : Generate(t, response)
    \/ \E t \in 1..Len(frames) : Increment(t)
    \/ \E t \in 1..Len(frames) : Validate(t)

SpecThreads == Init /\ [][NextThreads]_vars

----------------------------------------------------------------------------
(* The counter and the window start, statement by statement.               *)

\* the frame f missed the cache, slept at the gate and has reset the window
HasReset(f) == \E i \in 1..Len(f.events) : f.events[i] = "reset"

\* C21: with one invocation at a time, in every step query_count stays,
\* increases by exactly 1 or is reset to 0; start_time changes only in a
\* reset step, which sets it to the current time and query_count to 0
\* together; a call resets exactly when it missed the cache and found
\* query_count >= 50 with elapsed < 60 at the gate, after it has slept
\* exactly 60 - elapsed; and the collaborator call that follows, whatever
\* its answer, leaves the reset as it is.
C21_RateWindowTransitions ==
    [][/\ \/ query_count' = query_count
          \/ query_count' = query_count + 1
          \/ query_count' = 0
       /\ (start_time' # start_time \/ (query_count' = 0 /\ query_count # 0))
          => (/\ start_time' = now'
              /\ query_count' = 0
              /\ \E t \in 1..Len(frames) :
                    /\ frames[t].events = <<"lookup", "sleep">>
                    /\ frames[t].elapsed < Window
                    /\ query_count >= RateLimit
                    /\ frames[t].slept = Window - frames[t].elapsed
                    /\ HasReset(frames'[t]))
       /\ \A t \in 1..Len(frames) :
             /\ RateGate(t)
                => (/\ frames'[t].elapsed = now - start_time
                    /\ frames'[t].events = <<"lookup">>
                    /\ IF query_count >= RateLimit /\ now - start_time < Window
                       THEN frames'[t].pc = "sleep"
                       ELSE frames'[t].pc = "generate")
             /\ Sleep(t)
                => (/\ now' = now + (Window - frames[t].elapsed)
                    /\ frames'[t].pc = "reset")
             /\ frames[t].pc = "reset"
                => (/\ frames'[t].pc \in {"reset", "generate"}
                    /\ frames'[t].pc = "generate" => (query_count' = 0 /\ start_time' = now))
             /\ (frames[t].pc = "generate" /\ frames'[t] # frames[t])
                => (/\ HasReset(frames[t]) <=> frames[t].slept > 0
                    /\ UNCHANGED <<query_count, start_time>>)]_vars

\* a call slept for the second half of the window and reset it, then the
\* collaborator raised: the window start and the counter stay reset
C21_Witness ==
    \E t \in 1..Len(frames) :
        /\ frames[t].outcome = "Failed"
        /\ frames[t].events = <<"lookup", "sleep", "reset", "generate">>
        /\ frames[t].slept = 30
        /\ query_count = 0
        /\ start_time = now

----------------------------------------------------------------------------
(* The growth of the cache.                                                *)

\* C22: with a single caller the cache only grows and no entry changes: a
\* key that is in query_cache stays in it with the same value, and
\* query_cache changes only by one new entry, added by a call that missed
\* the cache and whose output passed the validation.
C22_CacheOnlyGrows ==
    [][/\ \A k \in DOMAIN query_cache :
             k \in DOMAIN query_cache' /\ query_cache'[k] = query_cache[k]
       /\ query_cache' # query_cache
          => LET key == CacheKeys[<<last'.nl_query, last'.schema>>] IN
             /\ key \notin DOMAIN query_cache
             /\ DOMAIN query_cache' = DOMAIN query_cache \cup {key}
             /\ last'.outcome = "Done"
             /\ Generated(last')
             /\ ~last'.response.raises
             /\ _is_valid_sql(GeneratedSql[last'.response.text])
             /\ query_cache'[key] = GeneratedSql[last'.response.text]]_vars

\* the cache holds two entries, and the latest call was served one of them
\* although the collaborator would have answered with another accepted
\* statement
C22_Witness ==
    /\ Cardinality(DOMAIN query_cache) = 2
    /\ ServedFromCache(last)
    /\ ~last.response.raises
    /\ _is_valid_sql(GeneratedSql[last.response.text])
    /\ query_cache[CacheKeys[<<last.nl_query, last.schema>>]] # GeneratedSql[last.response.text]

----------------------------------------------------------------------------
(* Termination of nl_to_sql.                                               *)

\* the number of times the invocation of frame f slept
Sleeps(f) == Cardinality({i \in 1..Len(f.events) : f.events[i] = "sleep"})

\* C23: every invocation ends as Done, Rejected or Failed, the latter
\* being either not configured or a failure of the collaborator, provided
\* the thread is scheduled and the collaborator returns or raises; the one
\* step of an invocation in which time passes is the sleep of the rate
\* gate, it lasts 60 - elapsed, which is more than 0 and at most 60, and an
\* invocation sleeps at most once.
C23_Terminates ==
    /\ [](\A t \in 1..Len(frames) :
             /\ Finished(t) <=> frames[t].outcome \in {"Done", "Rejected", "Failed", "NotConfigured"}
             /\ ~Finished(t) => frames[t].outcome = "None"
             /\ Sleeps(frames[t]) <= 1
             /\ frames[t].pc = "sleep"
                => (Window - frames[t].elapsed > 0 /\ Window - frames[t].elapsed <= Window)
             /\ frames[t].slept = IF Sleeps(frames[t]) = 1 THEN Window - frames[t].elapsed ELSE 0)
    /\ [][\A t \in 1..Len(frames) :
             Statement(t) => (now' # now <=> frames[t].pc = "sleep")]_vars
    /\ (InProgress # {}) ~> (InProgress = {})

\* an invocation slept for a whole window, then was rejected
C23_Witness ==
    \E t \in 1..Len(frames) :
        /\ Finished(t)
        /\ frames[t].outcome = "Rejected"
        /\ frames[t].slept = Window
        /\ Sleeps(frames[t]) = 1

----------------------------------------------------------------------------
(* Two threads in nl_to_sql on one converter.                              *)

\* the cache key of the invocation of frame f
KeyOf(f) == CacheKeys[<<f.nl_query, f.schema>>]

\* the invocation of frame f missed the cache, invoked the collaborator and
\* stored and returned what it obtained
StoredOwn(f) == f.events = <<"lookup", "generate", "count", "validate", "store">>

\* thread t was returned a translation that the cache no longer holds
Overwritten(t) ==
    /\ frames[t].outcome = "Done"
    /\ query_cache[KeyOf(frames[t])] # frames[t].result

\* C24: the fields of the converter are unsafe under concurrent
\* invocation.  Two invocations that interleave can both miss the cache for
\* one (question, schema) and both have their collaborator output accepted,
\* the entry of a key can be overwritten with another accepted SQL after
\* its first value was returned, and more than 50 collaborator calls can be
\* answered within one window; none of the three happens as long as no
\* invocation began while another one was in progress.
C24_UnsafeWhenInterleaved ==
    ~overlapped
    => /\ \A k \in KeySet : accepted_calls[k] <= 1
       /\ \A t \in 1..Len(frames) : ~Overwritten(t)
       /\ window_calls <= RateLimit
       /\ Cardinality(InProgress) <= 1

\* two interleaved invocations missed the cache for the same (question,
\* schema), both invoked the collaborator as calls 50 and 51 of the window,
\* and the second to store replaced the translation the first had returned
C24_Witness ==
    /\ window_calls > RateLimit
    /\ \E t \in 1..Len(frames), u \in 1..Len(frames) :
          /\ t # u
          /\ KeyOf(frames[t]) = KeyOf(frames[u])
          /\ StoredOwn(frames[t])
          /\ StoredOwn(frames[u])
          /\ accepted_calls[KeyOf(frames[t])] = 2
          /\ Overwritten(t)
          /\ query_cache[KeyOf(frames[u])] = frames[u].result

----------------------------------------------------------------------------
(* The history of the window.                                              *)

\* C25: every entry of query_history holds the question some worker was
\* started with together with the SQL that same worker obtained, the worker
\* being one whose translation succeeded and that went on to execute it,
\* whatever the order of the signals of the workers, of the edits of the
\* question field, of the clicks on Limpar and of the starts of workers.
C25_HistoryMatchesRun ==
    \A i \in 1..Len(query_history) :
        \E w \in 1..Len(workers) :
            /\ workers[w].pc \in {"returning", "finished"}
            /\ workers[w].sql # <<>>
            /\ query_history[i].nl = workers[w].nl_query
            /\ query_history[i].sql = workers[w].sql

====
